---- MODULE Spec2Model ----
(***************************************************************************)
(* ExpiryTracker: the dashboard's in-memory item list under the realtime   *)
(* change feed (dashboard.js), the expiry arithmetic and classification    *)
(* (utils.js) and the browser notification scans (notifications.js).       *)
(*                                                                         *)
(* Time is counted in hours since an epoch at 00:00 UTC of calendar day 0; *)
(* a JavaScript Date is the number of hours since that epoch.  A DATE      *)
(* column value 'YYYY-MM-DD' is the number of its calendar day.  The       *)
(* browser's zone is a fixed offset tz (local = UTC + tz), without         *)
(* daylight-saving transitions.                                            *)
(***************************************************************************)
EXTENDS Integers, Sequences, FiniteSets, TLC

VARIABLES
    now,                    \* the wall clock: what new Date() returns
    tz,                     \* the browser's UTC offset in hours
    db,                     \* expiry_items rows of the signed-in user (remote)
    pc,                     \* position of dashboard.js init()
    currentUser,            \* dashboard.js:14
    items,                  \* dashboard.js:15
    realtimeChannel,        \* dashboard.js:18
    counts,                 \* #allCount, #soonCount, #expiredCount
    browserPermission,      \* Notification.permission
    notificationPermission, \* notifications.js:5
    intervalTimers,         \* due times of the setInterval timers, with periods
    dailyTimeout,           \* due time of scheduleDailyCheck's setTimeout
    lastScan,               \* the rows the last checkExpiringItems iterated, what it showed, when
    shown,                  \* number of notifications shown so far per [id, title]
    expiryArg,              \* the last getExpiryStatus call: its argument, when
    expiryStatus,           \* its result: the status, and the days it computed
    location,               \* window.location.href: the page that is open
    session,                \* supabase.auth.getSession(): the stored session
    emailConfirmed,         \* the account's email_confirmed_at is set
    displayed,              \* the page's container is shown (style.display)
    initCalls,              \* the calls the page's init() has made
    toast,                  \* the last showToast: its message and type
    errorMessage,           \* the text of the form's #errorMessage, "" when hidden
    editingItemId,          \* dashboard.js:17, 0 for null
    lastRun,                \* the last form handler run: its remote calls, what it sent
    download,               \* the file the last export saved
    pendingRedirect,        \* the page a pending setTimeout redirect goes to
    currentFilter,          \* dashboard.js:16
    saving,                 \* the saveItem run that waits for its upload
    openChannels,           \* the channels the realtime client holds open
    feed,                   \* committed changes whose events are on their way
    stats,                  \* #totalItems, #expiringSoon, #expiredItems
    statsFetches,           \* loadStats runs that wait for their select
    currentProfile,         \* profile.js:8, its avatar_url
    profileAvatar,          \* profiles.avatar_url of the user (remote)
    avatars                 \* the blobs of the avatars bucket (remote)

vars == <<now, tz, db, pc, currentUser, items, realtimeChannel, counts,
          browserPermission, notificationPermission, intervalTimers,
          dailyTimeout, lastScan, shown, expiryArg, expiryStatus,
          location, session, emailConfirmed, displayed, initCalls,
          toast, errorMessage, editingItemId, lastRun, download,
          pendingRedirect, currentFilter, saving, openChannels, feed,
          stats, statsFetches, currentProfile, profileAvatar, avatars>>

clockVars  == <<now, tz>>
dashVars   == <<pc, currentUser, items, realtimeChannel, counts>>
notifyVars == <<browserPermission, notificationPermission, intervalTimers,
                dailyTimeout, lastScan, shown>>
statusVars == <<expiryArg, expiryStatus>>
authVars   == <<location, session, emailConfirmed, displayed, initCalls>>
editVars   == <<toast, errorMessage, editingItemId, lastRun, download>>
liveVars   == <<pendingRedirect, currentFilter, saving, openChannels, feed>>
profileVars == <<stats, statsFetches, currentProfile, profileAvatar, avatars>>

---------------------------------------------------------------------------
\* Bounds and input sets.

MaxItems == 2               \* longest item list explored
MaxDay == 3                 \* the clock stops at 00:00 UTC of this day
MaxStatusDate == 34         \* expiry dates classified: 0..MaxStatusDate
StartDay == 1               \* the page is opened on this calendar day (UTC)

Ids == {1, 2}
User == "u1"
TzOffsets == {-6, 0, 6}
StartHours == {0, 8, 10, 21}
DashStartHours == {21}
DashDates == {0, 1, 9}
NotifyDates == {0, 1, 4, 8, 9}

HoursPerDay == 24           \* 1000 * 60 * 60 * 24 ms

NoTime == 0 - 1
Null == "null"

Rows(dates) == [id : Ids, user_id : {User}, expiry_date : dates]

\* Sets of rows in which ids are unique (id is the primary key).
Tables(dates) ==
    {S \in SUBSET Rows(dates) : \A r, s \in S : r.id = s.id => r = s}

---------------------------------------------------------------------------
\* utils.js: date arithmetic.

CeilDiv(a, b) == -((-a) \div b)

\* new Date('YYYY-MM-DD'): a date-only string is read as 00:00 UTC of that day.
ParseDate(dateString) == dateString * HoursPerDay

\* Date.prototype.setHours(h, 0, 0, 0) in the zone z: hour h of the local day of t.
SetHours(t, h, z) == ((t + z) \div HoursPerDay) * HoursPerDay - z + h

\* The local calendar day of instant t in zone z.
LocalDay(t, z) == (t + z) \div HoursPerDay

DaysAt(expiryDate, t, z) ==
    LET today  == SetHours(t, 0, z)
        expiry == SetHours(ParseDate(expiryDate), 0, z)
        diffTime == expiry - today
    IN  CeilDiv(diffTime, HoursPerDay)

daysUntilExpiry(expiryDate) == DaysAt(expiryDate, now, tz)

\* getExpiryStatus with the week's last day left out of 'soon' (days < 7).
getExpiryStatusSoonBelow7(expiryDate) ==
    LET days == daysUntilExpiry(expiryDate)
    IN  IF days < 0 THEN [status |-> "expired", days |-> days]
        ELSE IF days = 0 THEN [status |-> "today", days |-> days]
        ELSE IF days < 7 THEN [status |-> "soon", days |-> days]
        ELSE IF days <= 30 THEN [status |-> "warning", days |-> days]
        ELSE [status |-> "good", days |-> days]

\* The status of the returned object, with the days the call computed (the
\* number that the labels 'N days left' show).
getExpiryStatus(expiryDate) ==
    LET days == daysUntilExpiry(expiryDate)
    IN  IF days < 0 THEN [status |-> "expired", days |-> days]
        ELSE IF days = 0 THEN [status |-> "today", days |-> days]
        ELSE IF days <= 7 THEN [status |-> "soon", days |-> days]
        ELSE IF days <= 30 THEN [status |-> "warning", days |-> days]
        ELSE [status |-> "good", days |-> days]

---------------------------------------------------------------------------
\* dashboard.js: the item list.

\* The answers select('*').eq('user_id', ..).order('expiry_date') can give for
\* table S: every arrangement of its rows that ascends by expiry_date (the
\* order of rows with equal expiry_date is the server's choice).
SelectOrdered(S) ==
    {s \in [1..Cardinality(S) -> S] :
        /\ \A i, j \in 1..Cardinality(S) : i # j => s[i] # s[j]
        /\ \A i, j \in 1..Cardinality(S) : i < j => s[i].expiry_date <= s[j].expiry_date}

\* items.findIndex(item => item.id === id): the first index, 0 for -1.
findIndex(list, id) ==
    IF \E i \in DOMAIN list : list[i].id = id
    THEN CHOOSE i \in DOMAIN list :
            /\ list[i].id = id
            /\ \A j \in DOMAIN list : list[j].id = id => i <= j
    ELSE 0

Payloads(dates) ==
    [eventType : {"INSERT", "UPDATE"}, new : Rows(dates)]
        \cup [eventType : {"DELETE"}, old : [id : Ids]]

\* handleRealtimeChange with the DELETE case written as
\* items.splice(items.findIndex(..), 1): the first match is removed, and for an
\* id that is not in the list (index -1) the last item.
handleRealtimeChangeDeleteSplice(list, payload) ==
    CASE payload.eventType = "INSERT" -> Append(list, payload.new)
      [] payload.eventType = "UPDATE" ->
            LET updateIndex == findIndex(list, payload.new.id)
            IN  IF updateIndex # 0
                THEN [list EXCEPT ![updateIndex] = payload.new]
                ELSE list
      [] payload.eventType = "DELETE" ->
            LET deleteIndex == IF findIndex(list, payload.old.id) # 0
                               THEN findIndex(list, payload.old.id)
                               ELSE Len(list)
            IN  SubSeq(list, 1, deleteIndex - 1)
                    \o SubSeq(list, deleteIndex + 1, Len(list))

\* The list handleRealtimeChange leaves in items.
handleRealtimeChange(list, payload) ==
    CASE payload.eventType = "INSERT" -> Append(list, payload.new)
      [] payload.eventType = "UPDATE" ->
            LET updateIndex == findIndex(list, payload.new.id)
            IN  IF updateIndex # 0
                THEN [list EXCEPT ![updateIndex] = payload.new]
                ELSE list
      [] payload.eventType = "DELETE" ->
            SelectSeq(list, LAMBDA item : item.id # payload.old.id)

isSoon(item) == daysUntilExpiry(item.expiry_date) >= 0 /\ daysUntilExpiry(item.expiry_date) <= 7

isExpired(item) == daysUntilExpiry(item.expiry_date) < 0

isSoonAfterToday(item) == daysUntilExpiry(item.expiry_date) > 0 /\ daysUntilExpiry(item.expiry_date) <= 7

\* updateCounts with today's items left out of the expiring-soon count (days > 0).
updateCountsSoonAfterToday(list) ==
    [allCount |-> Len(list),
     soonCount |-> Len(SelectSeq(list, isSoonAfterToday)),
     expiredCount |-> Len(SelectSeq(list, isExpired))]

updateCounts(list) ==
    [allCount |-> Len(list),
     soonCount |-> Len(SelectSeq(list, isSoon)),
     expiredCount |-> Len(SelectSeq(list, isExpired))]

---------------------------------------------------------------------------
\* The clock.

\* 00:00 local of the day after t's local day.
NextMidnight(t, z) == SetHours(t, 0, z) + HoursPerDay

\* The instants at which something is due: armed timers and the next midnight.
DueTimes ==
    {intervalTimers[i].due : i \in DOMAIN intervalTimers}
        \cup (IF dailyTimeout = NoTime THEN {} ELSE {dailyTimeout})

NextEvent ==
    LET cand == DueTimes \cup {NextMidnight(now, tz)}
    IN  CHOOSE t \in cand : \A u \in cand : t <= u

\* Time passes up to the next instant at which something is due; a timer that
\* is due fires before the clock moves on.
Tick ==
    /\ \A t \in DueTimes : now < t
    /\ NextEvent <= MaxDay * HoursPerDay
    /\ now' = NextEvent
    /\ UNCHANGED <<tz, db, dashVars, notifyVars, statusVars, authVars, editVars, liveVars, profileVars>>

ClockInit(hours) ==
    /\ now \in {StartDay * HoursPerDay + h : h \in hours}
    /\ tz \in TzOffsets

---------------------------------------------------------------------------
\* dashboard.js: init() and the change feed.

DashInit ==
    /\ pc = "requireAuth"
    /\ currentUser = Null
    /\ items = <<>>
    /\ realtimeChannel = Null
    /\ counts = [allCount |-> 0, soonCount |-> 0, expiredCount |-> 0]

NoToast == [message |-> "", type |-> "none"]

\* showToast(message, type): the toast it puts on the page.
showToast(message, type) == [message |-> message, type |-> type]

NoRun == [handler |-> "none", calls |-> <<>>, sent |-> <<>>]

NoFile == [format |-> "none", isArray |-> FALSE, rows |-> <<>>]

\* The page's state when its script starts: nothing shown, nothing called.
PageIdle ==
    /\ displayed = FALSE
    /\ initCalls = {}
    /\ toast = NoToast
    /\ errorMessage = ""
    /\ editingItemId = 0
    /\ lastRun = NoRun
    /\ download = NoFile

NoStats == [totalItems |-> 0, expiringSoon |-> 0, expiredItems |-> 0]

\* No redirect is pending, the filter is 'all', no save waits for an upload,
\* a channel is open when the page holds one, no event is on its way.
LiveIdle ==
    /\ pendingRedirect = Null
    /\ currentFilter = "all"
    /\ saving = <<>>
    /\ openChannels = IF realtimeChannel = Null THEN 0 ELSE 1
    /\ feed = <<>>

\* The profile page is not loaded; the user has no avatar (0 for null).
ProfileIdle ==
    /\ stats = NoStats
    /\ statsFetches = <<>>
    /\ currentProfile = 0
    /\ profileAvatar = 0
    /\ avatars = {}

\* init(): requireAuth() with a session shows the container;
\* loadUserProfile() only fills the page.
RequireAuthSession ==
    /\ location = "dashboard.html"
    /\ pc = "requireAuth"
    /\ session # Null
    /\ currentUser' = session
    /\ displayed' = TRUE
    /\ initCalls' = initCalls \cup {"requireAuth", "loadUserProfile"}
    /\ pc' = "loadItems"
    /\ UNCHANGED <<items, realtimeChannel, counts>>
    /\ UNCHANGED <<location, session, emailConfirmed>>
    /\ UNCHANGED <<clockVars, db, notifyVars, statusVars, editVars, liveVars, profileVars>>

\* RequireAuthNoSession without init()'s early return: the redirect is set
\* and init() goes on to load the items.
RequireAuthNoSessionContinues ==
    /\ location = "dashboard.html"
    /\ pc = "requireAuth"
    /\ session = Null
    /\ currentUser' = User
    /\ location' = "login.html"
    /\ initCalls' = initCalls \cup {"requireAuth", "loadUserProfile"}
    /\ pc' = "loadItems"
    /\ UNCHANGED <<items, realtimeChannel, counts>>
    /\ UNCHANGED <<session, emailConfirmed, displayed>>
    /\ UNCHANGED <<clockVars, db, notifyVars, statusVars, editVars, liveVars, profileVars>>

\* init(): requireAuth() without a session redirects to login.html and
\* returns null; init() returns.
RequireAuthNoSession ==
    /\ location = "dashboard.html"
    /\ pc = "requireAuth"
    /\ session = Null
    /\ currentUser' = Null
    /\ location' = "login.html"
    /\ initCalls' = initCalls \cup {"requireAuth"}
    /\ pc' = "login"
    /\ UNCHANGED <<items, realtimeChannel, counts>>
    /\ UNCHANGED <<session, emailConfirmed, displayed>>
    /\ UNCHANGED <<clockVars, db, notifyVars, statusVars, editVars, liveVars, profileVars>>

LoadItemsOk ==
    /\ pc = "loadItems"
    /\ \E data \in SelectOrdered(db) :
        /\ items' = data
        /\ counts' = updateCounts(data)
    /\ initCalls' = initCalls \cup {"loadItems"}
    /\ pc' = "setupRealtimeSync"
    /\ UNCHANGED <<currentUser, realtimeChannel>>
    /\ UNCHANGED <<location, session, emailConfirmed, displayed>>
    /\ UNCHANGED <<clockVars, db, notifyVars, statusVars, editVars, liveVars, profileVars>>

\* The select fails: the catch block logs and shows a toast.
LoadItemsError ==
    /\ pc = "loadItems"
    /\ initCalls' = initCalls \cup {"loadItems"}
    /\ toast' = showToast("Failed to load items", "error")
    /\ pc' = "setupRealtimeSync"
    /\ UNCHANGED <<currentUser, items, realtimeChannel, counts>>
    /\ UNCHANGED <<location, session, emailConfirmed, displayed>>
    /\ UNCHANGED <<errorMessage, editingItemId, lastRun, download>>
    /\ UNCHANGED <<clockVars, db, notifyVars, statusVars, liveVars, profileVars>>

\* setupRealtimeSync(); setupEventListeners() only wires the page.
SetupRealtimeSync ==
    /\ pc = "setupRealtimeSync"
    /\ realtimeChannel' = "subscribed"
    /\ openChannels' = openChannels + 1
    /\ initCalls' = initCalls \cup {"setupRealtimeSync"}
    /\ pc' = "initNotifications"
    /\ UNCHANGED <<currentUser, items, counts>>
    /\ UNCHANGED <<location, session, emailConfirmed, displayed>>
    /\ UNCHANGED <<pendingRedirect, currentFilter, saving, feed>>
    /\ UNCHANGED <<clockVars, db, notifyVars, statusVars, editVars, profileVars>>

\* The toast handleRealtimeChange shows: none for an UPDATE of an id that is
\* not in the list.
changeToast(list, payload, before) ==
    CASE payload.eventType = "INSERT" -> showToast("New item added", "success")
      [] payload.eventType = "UPDATE" ->
            IF findIndex(list, payload.new.id) # 0
            THEN showToast("Item updated", "info")
            ELSE before
      [] payload.eventType = "DELETE" -> showToast("Item deleted", "info")

\* The channel's callback: one delivery of one change event.
RealtimeChange(payload) ==
    /\ realtimeChannel = "subscribed"
    /\ Len(handleRealtimeChange(items, payload)) <= MaxItems
    /\ items' = handleRealtimeChange(items, payload)
    /\ counts' = updateCounts(handleRealtimeChange(items, payload))
    /\ toast' = changeToast(items, payload, toast)
    /\ UNCHANGED <<pc, currentUser, realtimeChannel>>
    /\ UNCHANGED <<errorMessage, editingItemId, lastRun, download>>
    /\ UNCHANGED <<pendingRedirect, currentFilter, saving, openChannels>>
    /\ UNCHANGED <<clockVars, db, notifyVars, statusVars, authVars, profileVars>>

RealtimeInsert ==
    \E payload \in Payloads(DashDates) :
        payload.eventType = "INSERT" /\ RealtimeChange(payload) /\ UNCHANGED feed

RealtimeUpdate ==
    \E payload \in Payloads(DashDates) :
        payload.eventType = "UPDATE" /\ RealtimeChange(payload) /\ UNCHANGED feed

RealtimeDelete ==
    \E payload \in Payloads(DashDates) :
        payload.eventType = "DELETE" /\ RealtimeChange(payload) /\ UNCHANGED feed

\* Events whose record belongs to another user: the callback receives whatever
\* the channel delivers, the filter user_id=eq.<id> is applied by the server.
OtherOwnerPayloads ==
    [eventType : {"INSERT", "UPDATE"},
     new : [id : Ids, user_id : {"u2"}, expiry_date : DashDates]]

RealtimeOtherOwner ==
    \E payload \in OtherOwnerPayloads : RealtimeChange(payload) /\ UNCHANGED feed

---------------------------------------------------------------------------
\* notifications.js: permission, scans and timers.

IntervalHours == 6          \* setInterval(checkExpiringItems, 6 * 60 * 60 * 1000)
DailyHour == 9              \* scheduledTime.setHours(9, 0, 0, 0)
DailyPeriodHours == 24      \* setInterval(checkExpiringItems, 24 * 60 * 60 * 1000)

Titles == {"Item Expiring Today!", "Item Expiring Soon", "Upcoming Expiry"}
Alerts == [id : Ids, title : Titles]

NoScan == [rows |-> {}, alerts |-> {}, at |-> NoTime]

NotifyIdle ==
    /\ notificationPermission = "default"
    /\ intervalTimers = <<>>
    /\ dailyTimeout = NoTime
    /\ lastScan = NoScan
    /\ shown = [a \in Alerts |-> 0]

\* alertTitle with the three-day branch taken for every day up to the third.
alertTitleWithin3(days) ==
    IF days = 0 THEN "Item Expiring Today!"
    ELSE IF days > 0 /\ days <= 3 THEN "Item Expiring Soon"
    ELSE IF days = 7 THEN "Upcoming Expiry"
    ELSE Null

\* The branch of the forEach body taken for an item with these days: the title
\* passed to showNotification, Null when no branch is taken.
alertTitle(days) ==
    IF days = 0 THEN "Item Expiring Today!"
    ELSE IF days = 3 THEN "Item Expiring Soon"
    ELSE IF days = 7 THEN "Upcoming Expiry"
    ELSE Null

\* showNotification: the calls that construct a Notification.
showNotification(calls, permission) ==
    IF permission # "granted" THEN {} ELSE calls

\* checkExpiringItems over the fetched rows: the notifications it shows.
checkExpiringItems(rows, permission) ==
    showNotification(
        {[id |-> item.id, title |-> alertTitle(daysUntilExpiry(item.expiry_date))] :
            item \in {r \in rows : alertTitle(daysUntilExpiry(r.expiry_date)) # Null}},
        permission)

\* One run of checkExpiringItems.  fetched: getUser gave a user and the select
\* gave the rows; otherwise the function returns (or catches) before the loop.
Scan(fetched, permission) ==
    LET rows == IF fetched THEN db ELSE {}
        alerts == checkExpiringItems(rows, permission)
    IN  /\ lastScan' = [rows |-> rows, alerts |-> alerts, at |-> now]
        /\ shown' = [a \in Alerts |-> IF a \in alerts THEN shown[a] + 1 ELSE shown[a]]

\* scheduledTime without the move to tomorrow: always today's 09:00.
scheduledTimeToday(t, z) == SetHours(t, DailyHour, z)

\* scheduleDailyCheck: the delay base, i.e. the instant the timeout is due.
scheduledTime(t, z) ==
    LET nine == SetHours(t, DailyHour, z)
    IN  IF t > nine THEN nine + HoursPerDay ELSE nine

\* requestNotificationPermission: the answers it can get.  The result is the
\* pair of Notification.permission afterwards and the module's variable.
PermissionOutcomes ==
    IF browserPermission = "unsupported"
        THEN {[browser |-> "unsupported", module |-> notificationPermission]}
    ELSE IF browserPermission = "granted"
        THEN {[browser |-> "granted", module |-> "granted"]}
    ELSE IF browserPermission # "denied"
        THEN {[browser |-> p, module |-> p] : p \in {"granted", "denied", "default"}}
    ELSE {[browser |-> "denied", module |-> notificationPermission]}

\* initNotifications() when permission is granted: the immediate check, the
\* six-hour interval and the daily check.
InitNotificationsGranted ==
    /\ pc = "initNotifications"
    /\ \E o \in PermissionOutcomes :
        /\ o.module = "granted" /\ o.browser = "granted"
        /\ browserPermission' = o.browser
        /\ notificationPermission' = o.module
        /\ \E fetched \in BOOLEAN : Scan(fetched, o.module)
    /\ intervalTimers' = <<[due |-> now + IntervalHours, period |-> IntervalHours]>>
    /\ dailyTimeout' = scheduledTime(now, tz)
    /\ initCalls' = initCalls \cup {"initNotifications"}
    /\ pc' = "running"
    /\ UNCHANGED <<currentUser, items, realtimeChannel, counts>>
    /\ UNCHANGED <<location, session, emailConfirmed, displayed>>
    /\ UNCHANGED <<clockVars, db, statusVars, editVars, liveVars, profileVars>>

\* initNotifications() when permission is not granted: nothing is scheduled.
InitNotificationsRefused ==
    /\ pc = "initNotifications"
    /\ \E o \in PermissionOutcomes :
        /\ ~(o.module = "granted" /\ o.browser = "granted")
        /\ browserPermission' = o.browser
        /\ notificationPermission' = o.module
    /\ initCalls' = initCalls \cup {"initNotifications"}
    /\ pc' = "running"
    /\ UNCHANGED <<intervalTimers, dailyTimeout, lastScan, shown>>
    /\ UNCHANGED <<currentUser, items, realtimeChannel, counts>>
    /\ UNCHANGED <<location, session, emailConfirmed, displayed>>
    /\ UNCHANGED <<clockVars, db, statusVars, editVars, liveVars, profileVars>>

\* A setInterval timer fires: one scan, and the timer is due again a period on.
IntervalFires ==
    \E i \in DOMAIN intervalTimers :
        /\ intervalTimers[i].due <= now
        /\ \E fetched \in BOOLEAN : Scan(fetched, notificationPermission)
        /\ intervalTimers' =
            [intervalTimers EXCEPT ![i].due = intervalTimers[i].due + intervalTimers[i].period]
        /\ UNCHANGED <<browserPermission, notificationPermission, dailyTimeout>>
        /\ UNCHANGED <<clockVars, db, dashVars, statusVars, authVars, editVars, liveVars, profileVars>>

\* scheduleDailyCheck's timeout fires: one scan, and the daily interval starts.
DailyTimeoutFires ==
    /\ dailyTimeout # NoTime
    /\ dailyTimeout <= now
    /\ \E fetched \in BOOLEAN : Scan(fetched, notificationPermission)
    /\ intervalTimers' =
        Append(intervalTimers, [due |-> now + DailyPeriodHours, period |-> DailyPeriodHours])
    /\ dailyTimeout' = NoTime
    /\ UNCHANGED <<browserPermission, notificationPermission>>
    /\ UNCHANGED <<clockVars, db, dashVars, statusVars, authVars, editVars, liveVars, profileVars>>

---------------------------------------------------------------------------
\* auth.js and the page loads: the login page, the gates of the protected
\* pages, logout.

\* The name fields tried, as sequences of characters.
Names == {<<>>, <<" ">>, <<"m">>, <<" ", "m">>}

RECURSIVE trimStart(_)
trimStart(str) ==
    IF str # <<>> /\ Head(str) = " " THEN trimStart(Tail(str)) ELSE str

RECURSIVE trimEnd(_)
trimEnd(str) ==
    IF str # <<>> /\ str[Len(str)] = " "
    THEN trimEnd(SubSeq(str, 1, Len(str) - 1))
    ELSE str

\* String.prototype.trim()
trim(str) == trimEnd(trimStart(str))

Pages == {"login.html", "signup.html", "dashboard.html", "profile.html"}

\* The pages of auth.js's forms, which call checkAuthStatus() when loaded.
AuthPages == {"login.html", "signup.html"}

\* Characters of the e-mail addresses tried.
Emails ==
    {<<"a", "@", "b", ".", "c">>, <<"a", "@", "b", ".", "c", " ">>,
     <<"a", "@", "b">>, <<"a", " ", "@", "b", ".", "c">>}

\* isValidEmail with the pattern /^[^\s@]+@[^\s@]+$/: no dot is asked for.
isValidEmailNoDot(email) ==
    \E i \in DOMAIN email :
        /\ 1 < i /\ i < Len(email)
        /\ email[i] = "@"
        /\ \A k \in DOMAIN email : k # i => email[k] \notin {" ", "@"}

\* /^[^\s@]+@[^\s@]+\.[^\s@]+$/.test(email)
isValidEmail(email) ==
    \E i, j \in DOMAIN email :
        /\ 1 < i /\ i + 1 < j /\ j < Len(email)
        /\ email[i] = "@"
        /\ email[j] = "."
        /\ \A k \in DOMAIN email : k # i => email[k] \notin {" ", "@"}

\* The beforeunload handler with the removeChannel call left out.
beforeunloadKeepsChannel(channels, channel) == channels

\* The beforeunload handler of dashboard.js and profile.js: the channels the
\* client holds open after it.
beforeunload(channels, channel) ==
    IF channel # Null THEN channels - 1 ELSE channels

\* The open page is unloaded (its beforeunload handler runs, its timers and
\* pending handlers are gone) and a page is loaded: its scripts start with
\* their modules' initial state.
PageLoad(page) ==
    /\ location' = page
    /\ openChannels' = beforeunload(openChannels, realtimeChannel)
    /\ feed' = <<>>
    /\ pendingRedirect' = Null
    /\ currentFilter' = "all"
    /\ saving' = <<>>
    /\ stats' = NoStats
    /\ statsFetches' = <<>>
    /\ currentProfile' = 0
    /\ pc' = IF page \in AuthPages THEN "login" ELSE "requireAuth"
    /\ currentUser' = Null
    /\ items' = <<>>
    /\ realtimeChannel' = Null
    /\ counts' = [allCount |-> 0, soonCount |-> 0, expiredCount |-> 0]
    /\ displayed' = FALSE
    /\ initCalls' = {}
    /\ errorMessage' = ""
    /\ editingItemId' = 0
    /\ lastRun' = NoRun
    /\ notificationPermission' = "default"
    /\ intervalTimers' = <<>>
    /\ dailyTimeout' = NoTime
    /\ lastScan' = NoScan
    /\ UNCHANGED <<browserPermission, shown, download>>
    /\ UNCHANGED <<profileAvatar, avatars>>
    /\ UNCHANGED <<clockVars, db, statusVars>>

\* The user opens a page by its address, or reloads the one that is open.
Navigate ==
    \E page \in Pages :
        /\ PageLoad(page)
        /\ toast' = NoToast
        /\ UNCHANGED <<session, emailConfirmed>>

\* The user follows the link of the verification mail.
VerifyEmail ==
    /\ emailConfirmed = FALSE
    /\ emailConfirmed' = TRUE
    /\ UNCHANGED <<location, session, displayed, initCalls>>
    /\ UNCHANGED <<clockVars, db, dashVars, notifyVars, statusVars, editVars, liveVars, profileVars>>

\* checkAuthStatus() on the login or signup page with a stored session.
CheckAuthStatusSession ==
    /\ location \in AuthPages
    /\ pc = "login"
    /\ session # Null
    /\ PageLoad("dashboard.html")
    /\ toast' = NoToast
    /\ UNCHANGED <<session, emailConfirmed>>

\* checkAuthStatus() on the login or signup page without a session: the form
\* waits.
CheckAuthStatusNoSession ==
    /\ location \in AuthPages
    /\ pc = "login"
    /\ session = Null
    /\ pc' = "loginForm"
    /\ UNCHANGED <<currentUser, items, realtimeChannel, counts>>
    /\ UNCHANGED <<clockVars, db, notifyVars, statusVars, authVars, editVars, liveVars, profileVars>>

MinPasswordLength == 8      \* password.length < 8

\* The password fields tried: seven characters, eight, and another eight.
Passwords ==
    {[i \in 1..(MinPasswordLength - 1) |-> "p"],
     [i \in 1..MinPasswordLength |-> "p"],
     [i \in 1..MinPasswordLength |-> "q"]}

\* The login form's submit handler.  outcome: the answer of
\* signInWithPassword, which on success leaves the session in the client.
Login(email, outcome) ==
    /\ location = "login.html"
    /\ pc \in {"login", "loginForm"}
    /\ IF ~isValidEmail(trim(email))
       THEN /\ errorMessage' = "Please enter a valid email address"
            /\ lastRun' = [handler |-> "login", calls |-> <<>>, sent |-> <<>>]
            /\ UNCHANGED <<session, toast, pendingRedirect>>
       ELSE /\ lastRun' = [handler |-> "login",
                           calls |-> <<"auth.signInWithPassword">>,
                           sent |-> <<[email |-> trim(email)]>>]
            /\ outcome = "unconfirmed" => emailConfirmed = FALSE
            /\ outcome = "confirmed" => emailConfirmed = TRUE
            /\ session' = IF outcome = "error" THEN session ELSE User
            /\ errorMessage' =
                IF outcome = "error" THEN "Invalid email or password"
                ELSE IF outcome = "unconfirmed"
                    THEN "Please verify your email before logging in"
                ELSE ""
            /\ toast' = IF outcome = "confirmed"
                        THEN showToast("Login successful!", "success")
                        ELSE toast
            /\ pendingRedirect' = IF outcome = "confirmed"
                                  THEN "dashboard.html"
                                  ELSE pendingRedirect
    /\ UNCHANGED <<location, emailConfirmed, displayed, initCalls>>
    /\ UNCHANGED <<editingItemId, download>>
    /\ UNCHANGED <<currentFilter, saving, openChannels, feed>>
    /\ UNCHANGED <<clockVars, db, dashVars, notifyVars, statusVars, profileVars>>

\* The login form is submitted with an address isValidEmail refuses.
LoginInvalidEmail ==
    \E email \in Emails : ~isValidEmail(trim(email)) /\ Login(email, "error")

\* signInWithPassword answers with an error: the catch block shows it.
LoginError ==
    \E email \in Emails : isValidEmail(trim(email)) /\ Login(email, "error")

\* signInWithPassword signs the user in (the client stores the session) and
\* data.user.email_confirmed_at is not set: the handler shows the message and
\* returns.
LoginUnconfirmed ==
    \E email \in Emails : isValidEmail(trim(email)) /\ Login(email, "unconfirmed")

\* signInWithPassword signs a confirmed user in: the toast, and the redirect
\* to dashboard.html set for half a second later.
LoginConfirmed ==
    \E email \in Emails : isValidEmail(trim(email)) /\ Login(email, "confirmed")

\* The values of the signup form's fields: every name with a good address and
\* password, every address with a good name and password, every pair of
\* passwords with a good name and address, and a form with nothing right.
SignupForms ==
    [name : Names, email : {<<"a", "@", "b", ".", "c">>},
     password : {[i \in 1..MinPasswordLength |-> "p"]},
     confirmPassword : {[i \in 1..MinPasswordLength |-> "p"]}]
    \cup [name : {<<"m">>}, email : Emails,
          password : {[i \in 1..MinPasswordLength |-> "p"]},
          confirmPassword : {[i \in 1..MinPasswordLength |-> "p"]}]
    \cup [name : {<<"m">>}, email : {<<"a", "@", "b", ".", "c">>},
          password : Passwords, confirmPassword : Passwords]
    \cup [name : {<<>>}, email : {<<"a", "@", "b">>},
          password : {[i \in 1..(MinPasswordLength - 1) |-> "p"]},
          confirmPassword : {[i \in 1..MinPasswordLength |-> "q"]}]

\* The signup handler's checks: the message of the first that fails, "" when
\* all pass.
signupError(form) ==
    IF trim(form.name) = <<>> THEN "Please enter your name"
    ELSE IF ~isValidEmail(trim(form.email)) THEN "Please enter a valid email address"
    ELSE IF Len(form.password) < MinPasswordLength
        THEN "Password must be at least 8 characters"
    ELSE IF form.password # form.confirmPassword THEN "Passwords do not match"
    ELSE ""

\* The signup form's submit handler.  outcome: the answer of signUp (the
\* account waits for the verification mail, no session is stored).
Signup(form, outcome) ==
    /\ location = "signup.html"
    /\ pc \in {"login", "loginForm"}
    /\ IF signupError(form) # ""
       THEN /\ errorMessage' = signupError(form)
            /\ lastRun' = [handler |-> "signup", calls |-> <<>>, sent |-> <<>>]
            /\ UNCHANGED <<toast, pendingRedirect>>
       ELSE /\ lastRun' = [handler |-> "signup",
                           calls |-> <<"auth.signUp">>,
                           sent |-> <<[email |-> trim(form.email),
                                       password |-> form.password,
                                       name |-> trim(form.name)]>>]
            /\ errorMessage' = IF outcome = "ok" THEN "" ELSE "Failed to create account"
            /\ toast' = IF outcome = "ok"
                        THEN showToast("Verification email sent!", "success")
                        ELSE toast
            /\ pendingRedirect' = IF outcome = "ok" THEN "login.html" ELSE pendingRedirect
    /\ UNCHANGED <<editingItemId, download>>
    /\ UNCHANGED <<currentFilter, saving, openChannels, feed>>
    /\ UNCHANGED <<clockVars, db, dashVars, notifyVars, statusVars, authVars, profileVars>>

SignupInvalid ==
    \E form \in SignupForms : signupError(form) # "" /\ Signup(form, "ok")

SignupOk ==
    \E form \in SignupForms : signupError(form) = "" /\ Signup(form, "ok")

SignupError ==
    \E form \in SignupForms : signupError(form) = "" /\ Signup(form, "error")

\* The redirect a handler set with setTimeout happens.
RedirectFires ==
    /\ pendingRedirect # Null
    /\ PageLoad(pendingRedirect)
    /\ toast' = NoToast
    /\ UNCHANGED <<session, emailConfirmed>>

\* logout(): signOut succeeds, and the page goes to login.html.
LogoutOk ==
    /\ location = "dashboard.html"
    /\ pc \in {"initNotifications", "running"}
    /\ session' = Null
    /\ PageLoad("login.html")
    /\ toast' = showToast("Logged out successfully", "success")
    /\ UNCHANGED emailConfirmed

\* logout(): signOut fails.
LogoutError ==
    /\ location = "dashboard.html"
    /\ pc \in {"initNotifications", "running"}
    /\ toast' = showToast("Failed to logout", "error")
    /\ UNCHANGED <<errorMessage, editingItemId, lastRun, download>>
    /\ UNCHANGED <<clockVars, db, dashVars, notifyVars, statusVars, authVars, liveVars, profileVars>>

\* loadStats: the figures it computes from the rows the select gave.
statsOf(rows) ==
    [totalItems |-> Cardinality(rows),
     expiringSoon |-> Cardinality({item \in rows :
        /\ daysUntilExpiry(item.expiry_date) >= 0
        /\ daysUntilExpiry(item.expiry_date) <= 7}),
     expiredItems |-> Cardinality({item \in rows :
        daysUntilExpiry(item.expiry_date) < 0})]

\* profile.js init(): requireAuth() with a session shows the container, then
\* loadProfile(), loadStats(), setupRealtimeSync(), setupEventListeners() and
\* updateNotificationStatus() fill and wire the page.
ProfileRequireAuthSession ==
    /\ location = "profile.html"
    /\ pc = "requireAuth"
    /\ session # Null
    /\ currentUser' = session
    /\ displayed' = TRUE
    /\ initCalls' = initCalls \cup {"requireAuth", "loadProfile", "loadStats",
                                     "setupRealtimeSync", "updateNotificationStatus"}
    /\ currentProfile' = profileAvatar
    /\ stats' = statsOf(db)
    /\ realtimeChannel' = "subscribed"
    /\ openChannels' = openChannels + 1
    /\ pc' = "profile"
    /\ UNCHANGED <<items, counts>>
    /\ UNCHANGED <<location, session, emailConfirmed>>
    /\ UNCHANGED <<pendingRedirect, currentFilter, saving, feed>>
    /\ UNCHANGED <<statsFetches, profileAvatar, avatars>>
    /\ UNCHANGED <<clockVars, db, notifyVars, statusVars, editVars>>

\* profile.js init(): requireAuth() without a session redirects; init() returns.
ProfileRequireAuthNoSession ==
    /\ location = "profile.html"
    /\ pc = "requireAuth"
    /\ session = Null
    /\ currentUser' = Null
    /\ location' = "login.html"
    /\ initCalls' = initCalls \cup {"requireAuth"}
    /\ pc' = "login"
    /\ UNCHANGED <<items, realtimeChannel, counts>>
    /\ UNCHANGED <<session, emailConfirmed, displayed>>
    /\ UNCHANGED <<clockVars, db, notifyVars, statusVars, editVars, liveVars, profileVars>>

---------------------------------------------------------------------------
\* dashboard.js: the item form, delete, export and import.

MaxImport == 2              \* longest imported array explored

NoQuantity == 0 - 1         \* a record without a quantity field (undefined)

EditDates == {1}

\* The columns of expiry_items the forms write, besides those the list reads.
FullRows(names, quantities, dates) ==
    [id : Ids, user_id : {User}, name : names, category : {"dairy"},
     quantity : quantities, expiry_date : dates, notes : {<<>>}]

FullTables(names, quantities, dates) ==
    {S \in SUBSET FullRows(names, quantities, dates) :
        \A r, s \in S : r.id = s.id => r = s}

\* The handlers are wired by setupEventListeners(), after setupRealtimeSync().
Ready ==
    /\ location = "dashboard.html"
    /\ pc \in {"initNotifications", "running"}

\* The values of the item form's fields, and whether an image is selected.
Forms ==
    [name : Names, category : {"dairy"}, quantity : {1}, expiry_date : EditDates,
     notes : {<<>>}, image : BOOLEAN]

\* saveItem: the itemData object it builds from the form.
itemData(form, user) ==
    [name |-> trim(form.name),
     category |-> form.category,
     quantity |-> form.quantity,
     expiry_date |-> form.expiry_date,
     notes |-> trim(form.notes),
     user_id |-> user,
     image_url |-> IF form.image THEN "publicUrl" ELSE Null]

\* The row the store keeps for a record inserted under a new id.
NewRow(table, record) ==
    [id |-> CHOOSE i \in Ids \ {r.id : r \in table} :
                \A j \in Ids \ {r.id : r \in table} : i <= j,
     user_id |-> record.user_id,
     name |-> record.name,
     category |-> record.category,
     quantity |-> record.quantity,
     expiry_date |-> record.expiry_date,
     notes |-> record.notes]

\* insert(records): the table with one new row per record.
RECURSIVE InsertRows(_, _)
InsertRows(table, records) ==
    IF records = <<>> THEN table
    ELSE InsertRows(table \cup {NewRow(table, Head(records))}, Tail(records))

\* update(record).eq('id', id): the row of that id takes the record's columns.
UpdateRow(table, id, record) ==
    {IF r.id = id
     THEN [r EXCEPT !.name = record.name, !.category = record.category,
                    !.quantity = record.quantity,
                    !.expiry_date = record.expiry_date, !.notes = record.notes]
     ELSE r : r \in table}

HasRoom(table, n) == Cardinality(table) + n <= Cardinality(Ids)

SaveOutcomes == {"ok", "bucketNotFound", "uploadError", "writeError"}

\* The remote calls saveItem issues, in order.
saveCalls(form, editing, outcome) ==
    (IF form.image THEN <<"storage.upload">> ELSE <<>>)
        \o (IF outcome \in {"bucketNotFound", "uploadError"} THEN <<>>
            ELSE IF editing # 0 THEN <<"expiry_items.update">>
            ELSE <<"expiry_items.insert">>)

\* The message of the error saveItem's catch block shows.
saveError(outcome) ==
    IF outcome = "bucketNotFound" THEN "Storage bucket \"items\" not found."
    ELSE IF outcome = "uploadError" THEN "Image upload failed"
    ELSE "Failed to save item"

\* saveItem with the new item put into the list before the write is answered.
saveItemListOptimistic(list, form, user, editing, outcome) ==
    IF editing = 0 /\ outcome \notin {"bucketNotFound", "uploadError"}
    THEN Append(list, [id |-> 0] @@ itemData(form, user))
    ELSE list

\* The item list saveItem leaves: the handler does not touch it ('Real-time
\* will handle the update').
saveItemList(list, form, user, editing, outcome) == list

\* saveItem from the answer of the upload on (from its start for a form
\* without an image): the write to expiry_items under the editingItemId of
\* that moment, closeModal() or the catch block.
saveItemWrite(form, outcome) ==
    /\ Ready
    /\ outcome \in {"bucketNotFound", "uploadError"} => form.image
    /\ (outcome = "ok" /\ editingItemId = 0) => HasRoom(db, 1)
    /\ lastRun' = [handler |-> "saveItem",
                   calls |-> saveCalls(form, editingItemId, outcome),
                   sent |-> IF outcome \in {"bucketNotFound", "uploadError"} THEN <<>>
                            ELSE <<itemData(form, currentUser)>>]
    /\ items' = saveItemList(items, form, currentUser, editingItemId, outcome)
    /\ IF outcome = "ok"
       THEN /\ db' = IF editingItemId # 0
                     THEN UpdateRow(db, editingItemId, itemData(form, currentUser))
                     ELSE InsertRows(db, <<itemData(form, currentUser)>>)
            /\ editingItemId' = 0
            /\ UNCHANGED toast
       ELSE /\ toast' = showToast(saveError(outcome), "error")
            /\ UNCHANGED <<db, editingItemId>>
    /\ UNCHANGED <<pc, currentUser, realtimeChannel, counts>>
    /\ UNCHANGED <<errorMessage, download>>
    /\ UNCHANGED <<pendingRedirect, currentFilter, openChannels, feed>>
    /\ UNCHANGED <<clockVars, notifyVars, statusVars, authVars, profileVars>>

\* saveItem(e): one submit of the item form, nothing else happening before
\* the handler is through.
SaveItem(form, outcome) ==
    /\ saving = <<>>
    /\ saveItemWrite(form, outcome)
    /\ UNCHANGED saving

\* saveItem(e) for a form with an image, up to its await of the upload:
\* itemData is built, the button is disabled, the upload is on its way.
SaveItemUploadStarts ==
    /\ Ready
    /\ saving = <<>>
    /\ \E form \in Forms :
        /\ form.image
        /\ saving' = <<[form |-> form, editing |-> editingItemId]>>
    /\ UNCHANGED <<pendingRedirect, currentFilter, openChannels, feed>>
    /\ UNCHANGED <<clockVars, db, dashVars, notifyVars, statusVars, authVars, editVars, profileVars>>

\* The upload of the waiting saveItem is answered, and the handler goes on.
SaveItemUploadAnswered(outcome) ==
    /\ saving # <<>>
    /\ saveItemWrite(saving[1].form, outcome)
    /\ saving' = <<>>

SaveItemUploadOk == SaveItemUploadAnswered("ok")

SaveItemUploadFails ==
    \E outcome \in SaveOutcomes \ {"ok"} : SaveItemUploadAnswered(outcome)

SaveItemOk == \E form \in Forms : SaveItem(form, "ok")

SaveItemFails ==
    \E form \in Forms, outcome \in SaveOutcomes \ {"ok"} : SaveItem(form, outcome)

\* openAddModal()
OpenAddModal ==
    /\ Ready
    /\ editingItemId' = 0
    /\ UNCHANGED <<toast, errorMessage, lastRun, download>>
    /\ UNCHANGED <<clockVars, db, dashVars, notifyVars, statusVars, authVars, liveVars, profileVars>>

\* editItem(item), from the edit button of a rendered item.
EditItem ==
    /\ Ready
    /\ \E i \in DOMAIN items : editingItemId' = items[i].id
    /\ UNCHANGED <<toast, errorMessage, lastRun, download>>
    /\ UNCHANGED <<clockVars, db, dashVars, notifyVars, statusVars, authVars, liveVars, profileVars>>

\* closeModal(), from the close and cancel buttons.
CloseModal ==
    /\ Ready
    /\ editingItemId' = 0
    /\ UNCHANGED <<toast, errorMessage, lastRun, download>>
    /\ UNCHANGED <<clockVars, db, dashVars, notifyVars, statusVars, authVars, liveVars, profileVars>>

\* deleteItem(itemId), from the delete button of a rendered item.  outcome:
\* the confirm() was cancelled, or the delete succeeded or failed.
DeleteItem(itemId, outcome) ==
    /\ Ready
    /\ itemId \in {items[i].id : i \in DOMAIN items}
    /\ lastRun' = [handler |-> "deleteItem",
                   calls |-> IF outcome = "cancelled" THEN <<>>
                             ELSE <<"expiry_items.delete">>,
                   sent |-> <<>>]
    /\ db' = IF outcome = "ok" THEN {r \in db : r.id # itemId} ELSE db
    /\ toast' = IF outcome = "error"
                THEN showToast("Failed to delete item", "error")
                ELSE toast
    /\ UNCHANGED <<errorMessage, editingItemId, download>>
    /\ UNCHANGED <<clockVars, dashVars, notifyVars, statusVars, authVars, liveVars, profileVars>>

DeleteItemOk == \E itemId \in Ids : DeleteItem(itemId, "ok")

DeleteItemCancelled == \E itemId \in Ids : DeleteItem(itemId, "cancelled")

DeleteItemFails == \E itemId \in Ids : DeleteItem(itemId, "error")

\* formatDate(date): the calendar day toLocaleDateString prints for
\* new Date(date), which is 00:00 UTC of the day.
formatDate(date) == [day |-> LocalDay(ParseDate(date), tz)]

\* exportData: the rows of the PDF's table.
tableData(list) ==
    [i \in DOMAIN list |->
        LET days == daysUntilExpiry(list[i].expiry_date)
        IN  [name |-> list[i].name,
             category |-> IF list[i].category = "" THEN "-" ELSE list[i].category,
             quantity |-> [text |-> list[i].quantity],
             expiryDate |-> formatDate(list[i].expiry_date),
             status |-> IF days < 0 THEN "Expired"
                        ELSE IF days = 0 THEN "Today" ELSE "days"]]

\* exportData(): the PDF is built from the list and saved.
ExportDataOk ==
    /\ Ready
    /\ download' = [format |-> "pdf", isArray |-> FALSE, rows |-> tableData(items)]
    /\ toast' = showToast("PDF exported successfully", "success")
    /\ lastRun' = [handler |-> "exportData", calls |-> <<"profiles.select">>, sent |-> <<>>]
    /\ UNCHANGED <<errorMessage, editingItemId>>
    /\ UNCHANGED <<clockVars, db, dashVars, notifyVars, statusVars, authVars, liveVars, profileVars>>

\* exportData(): building the PDF throws (the library is not loaded).
ExportDataFails ==
    /\ Ready
    /\ toast' = showToast("Failed to export PDF", "error")
    /\ lastRun' = [handler |-> "exportData", calls |-> <<>>, sent |-> <<>>]
    /\ UNCHANGED <<errorMessage, editingItemId, download>>
    /\ UNCHANGED <<clockVars, db, dashVars, notifyVars, statusVars, authVars, liveVars, profileVars>>

\* The elements of the JSON arrays imported: an item record without quantity,
\* id and owner, and a record of another user's item, with all three.
ImportElements ==
    {[id |-> 0, user_id |-> Null, name |-> <<"m">>, category |-> "dairy",
      quantity |-> NoQuantity, expiry_date |-> d, notes |-> <<>>] : d \in EditDates}
    \cup
    {[id |-> 1, user_id |-> "u2", name |-> <<"m">>, category |-> "dairy",
      quantity |-> 3, expiry_date |-> d, notes |-> <<>>] : d \in EditDates}

SeqsUpTo(S, n) == UNION {[1..k -> S] : k \in 0..n}

\* JSON texts: of arrays of item records, and one that is not an array.
JsonFiles ==
    {[format |-> "json", isArray |-> TRUE, rows |-> rows] :
        rows \in SeqsUpTo(ImportElements, MaxImport)}
        \cup {[format |-> "json", isArray |-> FALSE, rows |-> <<>>]}

\* A file whose text is not JSON.
TextFiles == {[format |-> "text", isArray |-> FALSE, rows |-> <<>>]}

\* The files given to the import: JSON texts, a text that is not JSON, and the
\* file the export saved.
ImportFiles ==
    JsonFiles \cup TextFiles \cup (IF download = NoFile THEN {} ELSE {download})

\* JSON.parse(text) returns a value for a JSON text and throws otherwise.
JSONparses(file) == file.format = "json"

\* The check of the parsed value left out: every JSON value goes on to the map.
ArrayIsArrayAnyValue(file) == TRUE

\* Array.isArray(importedItems)
ArrayIsArray(file) == file.isArray

\* handleImport's map with the owner taken from the record when it has one.
itemsToInsertKeepsOwner(importedItems, user) ==
    [i \in DOMAIN importedItems |->
        [name |-> importedItems[i].name,
         category |-> importedItems[i].category,
         quantity |-> IF importedItems[i].quantity \in {NoQuantity, 0}
                      THEN 1 ELSE importedItems[i].quantity,
         expiry_date |-> importedItems[i].expiry_date,
         notes |-> importedItems[i].notes,
         user_id |-> IF importedItems[i].user_id # Null
                     THEN importedItems[i].user_id ELSE user]]

\* handleImport: importedItems.map(...); item.quantity || 1 is 1 for a missing
\* quantity and for 0.
itemsToInsert(importedItems, user) ==
    [i \in DOMAIN importedItems |->
        [name |-> importedItems[i].name,
         category |-> importedItems[i].category,
         quantity |-> IF importedItems[i].quantity \in {NoQuantity, 0}
                      THEN 1 ELSE importedItems[i].quantity,
         expiry_date |-> importedItems[i].expiry_date,
         notes |-> importedItems[i].notes,
         user_id |-> user]]

\* handleImport(e) with a file selected.  outcome: the answer of the insert.
HandleImport(file, outcome) ==
    /\ Ready
    /\ IF ~JSONparses(file) \/ ~ArrayIsArray(file)
       THEN /\ lastRun' = [handler |-> "handleImport", calls |-> <<>>, sent |-> <<>>]
            /\ toast' = showToast("Failed to import data", "error")
            /\ UNCHANGED db
       ELSE /\ outcome = "ok" => HasRoom(db, Len(file.rows))
            /\ lastRun' = [handler |-> "handleImport",
                           calls |-> <<"expiry_items.insert">>,
                           sent |-> itemsToInsert(file.rows, currentUser)]
            /\ IF outcome = "ok"
               THEN /\ db' = InsertRows(db, itemsToInsert(file.rows, currentUser))
                    /\ toast' = showToast("Imported items successfully", "success")
               ELSE /\ toast' = showToast("Failed to import data", "error")
                    /\ UNCHANGED db
    /\ UNCHANGED <<errorMessage, editingItemId, download>>
    /\ UNCHANGED <<clockVars, dashVars, notifyVars, statusVars, authVars, liveVars, profileVars>>

HandleImportOk == \E file \in ImportFiles : HandleImport(file, "ok")

HandleImportFails == \E file \in ImportFiles : HandleImport(file, "error")

---------------------------------------------------------------------------
\* dashboard.js: the filter of the navigation, and the events of the writes.

Filters == {"all", "soon", "expired"}

\* renderItems: the items it renders under a filter.
filteredItems(list, filter) ==
    IF filter = "soon" THEN SelectSeq(list, isSoon)
    ELSE IF filter = "expired" THEN SelectSeq(list, isExpired)
    ELSE list

\* renderItems with the filtered list kept: items = items.filter(...).
renderItemsKeepsFiltered(list, filter) == filteredItems(list, filter)

\* The list renderItems leaves in items: filteredItems is a local variable.
renderItems(list, filter) == list

\* A click on an entry of the navigation: the filter is set and the grid is
\* rendered.
SetFilter ==
    /\ Ready
    /\ \E filter \in Filters :
        /\ currentFilter' = filter
        /\ items' = renderItems(items, filter)
    /\ UNCHANGED <<pc, currentUser, realtimeChannel, counts>>
    /\ UNCHANGED <<pendingRedirect, saving, openChannels, feed>>
    /\ UNCHANGED <<clockVars, db, notifyVars, statusVars, authVars, editVars, profileVars>>

\* The item form is submitted with a name and an image.
SubmitItemForm ==
    \E outcome \in SaveOutcomes :
        SaveItem([name |-> <<"m">>, category |-> "dairy", quantity |-> 1,
                  expiry_date |-> 1, notes |-> <<>>, image |-> TRUE], outcome)

\* A JSON file is imported: an array of one record, or a value that is not an
\* array.
ImportFile ==
    \E file \in {f \in JsonFiles : Len(f.rows) <= 1}, outcome \in {"ok", "error"} :
        /\ \A i \in DOMAIN file.rows : file.rows[i].id = 0
        /\ HandleImport(file, outcome)

\* The events of committed writes that the list does not show yet: the row
\* the list lacks, the row it has in an older version, the id of a row that
\* is gone.
EventsOfWrites(table, list) ==
    {[eventType |-> "INSERT", new |-> r] : r \in {x \in table : x.id \notin {list[i].id : i \in DOMAIN list}}}
    \cup {[eventType |-> "UPDATE", new |-> r] :
            r \in {x \in table : \E i \in DOMAIN list : list[i].id = x.id /\ list[i] # x}}
    \cup {[eventType |-> "DELETE", old |-> [id |-> id]] :
            id \in {list[i].id : i \in DOMAIN list} \ {x.id : x \in table}}

\* The channel delivers the event of a committed write.
WriteEvent ==
    \E payload \in EventsOfWrites(db, items) :
        RealtimeChange(payload) /\ UNCHANGED feed

---------------------------------------------------------------------------
\* profile.js: the avatar upload.

MaxBlobs == 3               \* blob names of the avatars bucket: 1..MaxBlobs

OnProfile ==
    /\ location = "profile.html"
    /\ pc = "profile"

\* generateUniqueFilename: a path no blob has and no profile refers to.
FreshBlobs == (1..MaxBlobs) \ (avatars \cup {profileAvatar, currentProfile})

AvatarOutcomes == {"ok", "bucketNotFound", "uploadError", "updateError"}

\* The remote calls handleAvatarUpload issues, in order.
avatarCalls(old, outcome) ==
    (IF old # 0 THEN <<"storage.remove">> ELSE <<>>)
        \o <<"storage.upload">>
        \o (IF outcome \in {"ok", "updateError"} THEN <<"profiles.update">> ELSE <<>>)

\* The message of the toast handleAvatarUpload's catch block shows: the same
\* for every error thrown in the try block.
avatarError(outcome) == "Failed to upload avatar"

\* handleAvatarUpload(e) with a file selected.  removed: the remove of the old
\* blob took effect (its answer is not looked at).
HandleAvatarUpload(outcome, removed) ==
    /\ OnProfile
    /\ FreshBlobs # {}
    /\ currentProfile = 0 => removed
    /\ outcome = "bucketNotFound" => (avatars = {} /\ currentProfile = 0)
    /\ LET old == currentProfile
           afterRemove == IF old # 0 /\ removed THEN avatars \ {old} ELSE avatars
           filePath == CHOOSE b \in FreshBlobs : \A c \in FreshBlobs : b <= c
           uploaded == outcome \in {"ok", "updateError"}
       IN  /\ lastRun' = [handler |-> "handleAvatarUpload",
                          calls |-> avatarCalls(old, outcome),
                          sent |-> IF uploaded THEN <<[avatar_url |-> filePath]>> ELSE <<>>]
           /\ avatars' = IF uploaded THEN afterRemove \cup {filePath} ELSE afterRemove
           /\ profileAvatar' = IF outcome = "ok" THEN filePath ELSE profileAvatar
           /\ currentProfile' = IF outcome = "ok" THEN filePath ELSE currentProfile
           /\ toast' = IF outcome = "ok"
                       THEN showToast("Avatar updated successfully", "success")
                       ELSE showToast(avatarError(outcome), "error")
    /\ UNCHANGED <<errorMessage, editingItemId, download>>
    /\ UNCHANGED <<stats, statsFetches>>
    /\ UNCHANGED <<clockVars, db, dashVars, notifyVars, statusVars, authVars, liveVars>>

HandleAvatarUploadOk ==
    \E removed \in BOOLEAN : HandleAvatarUpload("ok", removed)

HandleAvatarUploadFails ==
    \E outcome \in AvatarOutcomes \ {"ok"}, removed \in BOOLEAN :
        HandleAvatarUpload(outcome, removed)

\* The profile page is loaded again: loadProfile() reads the profile.
ReloadProfile ==
    /\ OnProfile
    /\ PageLoad("profile.html")
    /\ toast' = NoToast
    /\ UNCHANGED <<session, emailConfirmed>>

---------------------------------------------------------------------------
\* The change feed of expiry_items: commits to the user's rows, their events,
\* and the handlers of the two pages.

MaxFeed == 2                \* events on their way at a time
MaxFetches == 2             \* loadStats runs waiting at a time

SyncDates == {0, 1}

\* The table after the change of an event.
applyChange(table, payload) ==
    CASE payload.eventType = "INSERT" -> table \cup {payload.new}
      [] payload.eventType = "UPDATE" ->
            {r \in table : r.id # payload.new.id} \cup {payload.new}
      [] payload.eventType = "DELETE" -> {r \in table : r.id # payload.old.id}

\* A change of the user's rows is committed, by this or another session of
\* the user.  Its event goes to the channel when one is open.
RemoteCommit(payload) ==
    /\ openChannels > 0 => Len(feed) < MaxFeed
    /\ IF payload.eventType = "INSERT"
       THEN \A r \in db : r.id # payload.new.id
       ELSE IF payload.eventType = "UPDATE"
       THEN payload.new \notin db /\ \E r \in db : r.id = payload.new.id
       ELSE \E r \in db : r.id = payload.old.id
    /\ db' = applyChange(db, payload)
    /\ feed' = IF openChannels > 0 THEN Append(feed, payload) ELSE feed
    /\ UNCHANGED <<pendingRedirect, currentFilter, saving, openChannels>>
    /\ UNCHANGED <<clockVars, dashVars, notifyVars, statusVars, authVars, editVars, profileVars>>

RemoteInsert ==
    \E payload \in Payloads(SyncDates) :
        payload.eventType = "INSERT" /\ RemoteCommit(payload)

RemoteUpdate ==
    \E payload \in Payloads(SyncDates) :
        payload.eventType = "UPDATE" /\ RemoteCommit(payload)

RemoteDelete ==
    \E payload \in Payloads(SyncDates) :
        payload.eventType = "DELETE" /\ RemoteCommit(payload)

\* The dashboard's channel delivers the next event to handleRealtimeChange.
DashboardFeedEvent ==
    /\ location = "dashboard.html"
    /\ feed # <<>>
    /\ RealtimeChange(Head(feed))
    /\ feed' = Tail(feed)

\* The profile page's channel delivers the next event: the callback starts
\* loadStats(), whose select reads the rows.
ProfileFeedEvent ==
    /\ OnProfile
    /\ realtimeChannel = "subscribed"
    /\ feed # <<>>
    /\ Len(statsFetches) < MaxFetches
    /\ feed' = Tail(feed)
    /\ statsFetches' = Append(statsFetches, [rows |-> db])
    /\ UNCHANGED <<pendingRedirect, currentFilter, saving, openChannels>>
    /\ UNCHANGED <<stats, currentProfile, profileAvatar, avatars>>
    /\ UNCHANGED <<clockVars, db, dashVars, notifyVars, statusVars, authVars, editVars>>

\* The select of one of the loadStats() runs is answered: the run writes its
\* figures to the page.
LoadStatsAnswered ==
    /\ OnProfile
    /\ \E i \in DOMAIN statsFetches :
        /\ stats' = statsOf(statsFetches[i].rows)
        /\ statsFetches' = SubSeq(statsFetches, 1, i - 1)
                            \o SubSeq(statsFetches, i + 1, Len(statsFetches))
    /\ UNCHANGED <<currentProfile, profileAvatar, avatars>>
    /\ UNCHANGED <<clockVars, db, dashVars, notifyVars, statusVars, authVars, editVars, liveVars>>

---------------------------------------------------------------------------
\* utils.js: a call of getExpiryStatus.

NoStatus == [status |-> "none", days |-> 0]

StatusIdle ==
    /\ expiryArg = [expiryDate |-> 0, at |-> NoTime]
    /\ expiryStatus = NoStatus

GetExpiryStatus ==
    \E expiryDate \in 0..MaxStatusDate :
        /\ expiryArg' = [expiryDate |-> expiryDate, at |-> now]
        /\ expiryStatus' = getExpiryStatus(expiryDate)
        /\ UNCHANGED <<clockVars, db, dashVars, notifyVars, authVars, editVars, liveVars, profileVars>>

---------------------------------------------------------------------------
\* The specifications.

\* The dashboard page from its load up to the call of initNotifications.
Init ==
    /\ ClockInit(DashStartHours)
    /\ db \in Tables(DashDates)
    /\ DashInit
    /\ location = "dashboard.html"
    /\ session \in {Null, User}
    /\ emailConfirmed = TRUE
    /\ PageIdle
    /\ browserPermission = "default"
    /\ NotifyIdle
    /\ StatusIdle
    /\ LiveIdle
    /\ ProfileIdle

Next ==
    \/ RequireAuthSession
    \/ RequireAuthNoSession
    \/ LoadItemsOk
    \/ LoadItemsError
    \/ SetupRealtimeSync
    \/ RealtimeInsert
    \/ RealtimeUpdate
    \/ RealtimeDelete
    \/ Tick

Spec == Init /\ [][Next]_vars

\* The notifier, from the call of initNotifications at the end of init(): the
\* items are loaded and the channel is subscribed.
InitNotify ==
    /\ ClockInit(StartHours)
    /\ db \in Tables(NotifyDates)
    /\ pc = "initNotifications"
    /\ currentUser = User
    /\ items \in SelectOrdered(db)
    /\ realtimeChannel = "subscribed"
    /\ counts = updateCounts(items)
    /\ location = "dashboard.html"
    /\ session = User
    /\ emailConfirmed = TRUE
    /\ displayed = TRUE
    /\ initCalls = {"requireAuth", "loadUserProfile", "loadItems", "setupRealtimeSync"}
    /\ toast = NoToast
    /\ errorMessage = ""
    /\ editingItemId = 0
    /\ lastRun = NoRun
    /\ download = NoFile
    /\ browserPermission \in {"default", "granted", "denied", "unsupported"}
    /\ NotifyIdle
    /\ StatusIdle
    /\ LiveIdle
    /\ ProfileIdle

NextNotify ==
    \/ InitNotificationsGranted
    \/ InitNotificationsRefused
    \/ IntervalFires
    \/ DailyTimeoutFires
    \/ Tick

SpecNotify == InitNotify /\ [][NextNotify]_vars

\* Calls of getExpiryStatus at any hour of the day, as the days pass.
InitStatus ==
    /\ ClockInit(0..(HoursPerDay - 1))
    /\ db = {}
    /\ DashInit
    /\ location = "dashboard.html"
    /\ session = User
    /\ emailConfirmed = TRUE
    /\ PageIdle
    /\ browserPermission = "default"
    /\ NotifyIdle
    /\ StatusIdle
    /\ LiveIdle
    /\ ProfileIdle

NextStatus ==
    \/ GetExpiryStatus
    \/ Tick

SpecStatus == InitStatus /\ [][NextStatus]_vars

\* The pages and the session: sign-in attempts, page loads, the gates.
AuthDates == {1}

InitAuth ==
    /\ ClockInit({10})
    /\ db \in Tables(AuthDates)
    /\ location \in Pages
    /\ pc = IF location \in AuthPages THEN "login" ELSE "requireAuth"
    /\ currentUser = Null
    /\ items = <<>>
    /\ realtimeChannel = Null
    /\ counts = [allCount |-> 0, soonCount |-> 0, expiredCount |-> 0]
    /\ session = Null
    /\ emailConfirmed \in BOOLEAN
    /\ PageIdle
    /\ browserPermission = "default"
    /\ NotifyIdle
    /\ StatusIdle
    /\ LiveIdle
    /\ ProfileIdle

NextAuth ==
    \/ Navigate
    \/ VerifyEmail
    \/ CheckAuthStatusSession
    \/ CheckAuthStatusNoSession
    \/ LoginInvalidEmail
    \/ LoginError
    \/ LoginUnconfirmed
    \/ LoginConfirmed
    \/ SignupInvalid
    \/ SignupOk
    \/ SignupError
    \/ RedirectFires
    \/ LogoutOk
    \/ LogoutError
    \/ RequireAuthSession
    \/ RequireAuthNoSession
    \/ LoadItemsOk
    \/ LoadItemsError
    \/ SetupRealtimeSync
    \/ ProfileRequireAuthSession
    \/ ProfileRequireAuthNoSession

SpecAuth == InitAuth /\ [][NextAuth]_vars

\* The dashboard from the load of the items on, then in the hands of the
\* user: the item form, delete, export and import.
InitEdit ==
    /\ now = StartDay * HoursPerDay + 10
    /\ tz = 0
    /\ db \in FullTables({<<"m">>}, {1}, EditDates)
    /\ pc = "loadItems"
    /\ currentUser = User
    /\ items = <<>>
    /\ realtimeChannel = Null
    /\ counts = [allCount |-> 0, soonCount |-> 0, expiredCount |-> 0]
    /\ location = "dashboard.html"
    /\ session = User
    /\ emailConfirmed = TRUE
    /\ displayed = TRUE
    /\ initCalls = {"requireAuth", "loadUserProfile"}
    /\ toast = NoToast
    /\ errorMessage = ""
    /\ editingItemId = 0
    /\ lastRun = NoRun
    /\ download = NoFile
    /\ browserPermission = "default"
    /\ NotifyIdle
    /\ StatusIdle
    /\ LiveIdle
    /\ ProfileIdle

NextEdit ==
    \/ LoadItemsOk
    \/ LoadItemsError
    \/ SetupRealtimeSync
    \/ OpenAddModal
    \/ EditItem
    \/ CloseModal
    \/ SaveItemOk
    \/ SaveItemFails
    \/ DeleteItemOk
    \/ DeleteItemCancelled
    \/ DeleteItemFails
    \/ ExportDataOk
    \/ ExportDataFails
    \/ HandleImportOk
    \/ HandleImportFails

SpecEdit == InitEdit /\ [][NextEdit]_vars

\* The change feed alone, on a loaded and subscribed dashboard.
InitFeed ==
    /\ now = StartDay * HoursPerDay + 10
    /\ tz = 0
    /\ db \in Tables(DashDates)
    /\ pc = "initNotifications"
    /\ currentUser = User
    /\ items \in SelectOrdered(db)
    /\ realtimeChannel = "subscribed"
    /\ counts = updateCounts(items)
    /\ location = "dashboard.html"
    /\ session = User
    /\ emailConfirmed = TRUE
    /\ displayed = TRUE
    /\ initCalls = {"requireAuth", "loadUserProfile", "loadItems", "setupRealtimeSync"}
    /\ toast = NoToast
    /\ errorMessage = ""
    /\ editingItemId = 0
    /\ lastRun = NoRun
    /\ download = NoFile
    /\ browserPermission = "default"
    /\ NotifyIdle
    /\ StatusIdle
    /\ LiveIdle
    /\ ProfileIdle

NextFeed ==
    \/ RealtimeInsert
    \/ RealtimeUpdate
    \/ RealtimeDelete
    \/ RealtimeOtherOwner

SpecFeed == InitFeed /\ [][NextFeed]_vars

\* The profile page and the avatar.
InitAvatar ==
    /\ now = StartDay * HoursPerDay + 10
    /\ tz = 0
    /\ db \in Tables(AuthDates)
    /\ location = "profile.html"
    /\ pc = "requireAuth"
    /\ currentUser = Null
    /\ items = <<>>
    /\ realtimeChannel = Null
    /\ counts = [allCount |-> 0, soonCount |-> 0, expiredCount |-> 0]
    /\ session = User
    /\ emailConfirmed = TRUE
    /\ PageIdle
    /\ browserPermission = "default"
    /\ NotifyIdle
    /\ StatusIdle
    /\ LiveIdle
    /\ ProfileIdle

NextAvatar ==
    \/ ProfileRequireAuthSession
    \/ HandleAvatarUploadOk
    \/ HandleAvatarUploadFails
    \/ ReloadProfile

SpecAvatar == InitAvatar /\ [][NextAvatar]_vars

\* The profile page's statistics under the change feed.
InitStats ==
    /\ now = StartDay * HoursPerDay + 10
    /\ tz = 0
    /\ db \in Tables(SyncDates)
    /\ location = "profile.html"
    /\ pc = "requireAuth"
    /\ currentUser = Null
    /\ items = <<>>
    /\ realtimeChannel = Null
    /\ counts = [allCount |-> 0, soonCount |-> 0, expiredCount |-> 0]
    /\ session = User
    /\ emailConfirmed = TRUE
    /\ PageIdle
    /\ browserPermission = "default"
    /\ NotifyIdle
    /\ StatusIdle
    /\ LiveIdle
    /\ ProfileIdle

NextStats ==
    \/ ProfileRequireAuthSession
    \/ RemoteInsert
    \/ RemoteUpdate
    \/ RemoteDelete
    \/ ProfileFeedEvent
    \/ LoadStatsAnswered

SpecStats == InitStats /\ [][NextStats]_vars

\* The dashboard's load and subscription while the rows change remotely.
InitSync ==
    /\ now = StartDay * HoursPerDay + 10
    /\ tz = 0
    /\ db \in Tables(SyncDates)
    /\ pc = "loadItems"
    /\ currentUser = User
    /\ items = <<>>
    /\ realtimeChannel = Null
    /\ counts = [allCount |-> 0, soonCount |-> 0, expiredCount |-> 0]
    /\ location = "dashboard.html"
    /\ session = User
    /\ emailConfirmed = TRUE
    /\ displayed = TRUE
    /\ initCalls = {"requireAuth", "loadUserProfile"}
    /\ toast = NoToast
    /\ errorMessage = ""
    /\ editingItemId = 0
    /\ lastRun = NoRun
    /\ download = NoFile
    /\ browserPermission = "default"
    /\ NotifyIdle
    /\ StatusIdle
    /\ LiveIdle
    /\ ProfileIdle

NextSync ==
    \/ LoadItemsOk
    \/ SetupRealtimeSync
    \/ RemoteInsert
    \/ RemoteUpdate
    \/ RemoteDelete
    \/ DashboardFeedEvent

SpecSync == InitSync /\ [][NextSync]_vars

\* The item form with image uploads that take their time: the modal buttons
\* stay in the user's hands while a save waits for its upload.
NextSave ==
    \/ LoadItemsOk
    \/ SetupRealtimeSync
    \/ OpenAddModal
    \/ EditItem
    \/ CloseModal
    \/ SaveItemUploadStarts
    \/ SaveItemUploadOk
    \/ SaveItemUploadFails

SpecSave == InitEdit /\ [][NextSave]_vars

\* The dashboard in the hands of the user, with the filter and with the
\* events of the user's writes coming back through the channel.
NextView ==
    \/ LoadItemsOk
    \/ SetupRealtimeSync
    \/ SetFilter
    \/ OpenAddModal
    \/ EditItem
    \/ CloseModal
    \/ SubmitItemForm
    \/ DeleteItemOk
    \/ DeleteItemCancelled
    \/ DeleteItemFails
    \/ ExportDataOk
    \/ ImportFile
    \/ WriteEvent

SpecView == InitEdit /\ [][NextView]_vars

---------------------------------------------------------------------------
\* The claims.

PayloadId(payload) ==
    IF payload.eventType = "DELETE" THEN payload.old.id ELSE payload.new.id

IdsOf(list) == {list[i].id : i \in DOMAIN list}

CountOf(list, id) == Cardinality({i \in DOMAIN list : list[i].id = id})

\* C1: in every reachable state of the dashboard no two entries of the item
\* list share an id.
C1_OneItemPerId ==
    \A i, j \in DOMAIN items : i # j => items[i].id # items[j].id

\* C2: an INSERT event whose id is already present in the list leaves the
\* list as it is (a second delivery of the same INSERT changes nothing).
C2_InsertIdempotent ==
    [][\A payload \in Payloads(DashDates) :
        (/\ payload.eventType = "INSERT"
         /\ payload.new.id \in IdsOf(items)
         /\ RealtimeChange(payload)) => items' = items]_vars

\* C3: after an UPDATE event whose id is not in the list, the list holds
\* exactly one item with that id, and it is the event's new record.
C3_UpdateOfMissingInserts ==
    [][\A payload \in Payloads(DashDates) :
        (/\ payload.eventType = "UPDATE"
         /\ payload.new.id \notin IdsOf(items)
         /\ RealtimeChange(payload))
        => /\ CountOf(items', payload.new.id) = 1
           /\ \E i \in DOMAIN items' : items'[i] = payload.new]_vars

\* C4: the list that a sequence of events leaves depends only on the last
\* event of each id: two events of different ids give the same list in either
\* order, of two events of the same id only the second counts (an INSERT or
\* UPDATE leaves exactly its record under that id), and an id whose last event
\* was DELETE is not in the list.
C4_Converges ==
    realtimeChannel = "subscribed" =>
        \A p, q \in Payloads(DashDates) :
            LET pq == handleRealtimeChange(handleRealtimeChange(items, p), q)
                qp == handleRealtimeChange(handleRealtimeChange(items, q), p)
            IN  /\ PayloadId(p) # PayloadId(q) => pq = qp
                /\ q.eventType = "DELETE" => PayloadId(q) \notin IdsOf(pq)
                /\ (PayloadId(p) = PayloadId(q) /\ q.eventType # "DELETE")
                    => /\ CountOf(pq, PayloadId(q)) = 1
                       /\ \E i \in DOMAIN pq : pq[i] = q.new

\* C5: in every reachable state the item list ascends by expiry date, items
\* of equal expiry date by id.
C5_SortedByExpiryThenId ==
    \A i, j \in DOMAIN items :
        i < j => \/ items[i].expiry_date < items[j].expiry_date
                 \/ /\ items[i].expiry_date = items[j].expiry_date
                    /\ items[i].id <= items[j].id

\* C6: over all scans (the immediate one and those of both timers) at most one
\* alert is shown for an item and a threshold (each threshold has its title).
C6_AtMostOncePerThreshold ==
    \A a \in Alerts : shown[a] <= 1

\* C7: with permission granted, a scan shows for each item it iterates the
\* 'today' alert iff the item's days until expiry are 0, the 'three days' alert
\* iff they are 3, the 'one week' alert iff they are 7, and nothing for any
\* other number of days; it shows nothing for items it did not iterate.
C7_AlertIffThreshold ==
    (lastScan.at # NoTime /\ notificationPermission = "granted") =>
        /\ \A item \in lastScan.rows :
            LET days == DaysAt(item.expiry_date, lastScan.at, tz)
                Shows(title) == [id |-> item.id, title |-> title] \in lastScan.alerts
            IN  /\ Shows("Item Expiring Today!") <=> days = 0
                /\ Shows("Item Expiring Soon") <=> days = 3
                /\ Shows("Upcoming Expiry") <=> days = 7
        /\ \A a \in lastScan.alerts : \E item \in lastScan.rows : item.id = a.id

\* A scan that iterated an item seven days from expiry, alerted, and an item
\* two days from expiry, not alerted.
C7_Witness ==
    /\ lastScan.at # NoTime
    /\ notificationPermission = "granted"
    /\ \E r1, r2 \in lastScan.rows :
        /\ DaysAt(r1.expiry_date, lastScan.at, tz) = 7
        /\ [id |-> r1.id, title |-> "Upcoming Expiry"] \in lastScan.alerts
        /\ DaysAt(r2.expiry_date, lastScan.at, tz) = 2
        /\ \A a \in lastScan.alerts : a.id # r2.id

\* C8: the status getExpiryStatus returns is 'expired' for days < 0, 'today'
\* for 0, 'soon' for 1..7, 'warning' for 8..30 and 'good' for days > 30.
C8_TierBoundaries ==
    expiryArg.at # NoTime =>
        LET days == DaysAt(expiryArg.expiryDate, expiryArg.at, tz)
        IN  /\ expiryStatus.status = "expired" <=> days < 0
            /\ expiryStatus.status = "today" <=> days = 0
            /\ expiryStatus.status = "soon" <=> (1 <= days /\ days <= 7)
            /\ expiryStatus.status = "warning" <=> (8 <= days /\ days <= 30)
            /\ expiryStatus.status = "good" <=> days > 30

\* A call that classified a date seven days ahead as 'soon'.
C8_Witness ==
    /\ expiryArg.at # NoTime
    /\ DaysAt(expiryArg.expiryDate, expiryArg.at, tz) = 7
    /\ expiryStatus.status = "soon"

\* C9: at every hour of the day the days until expiry of a date go down by
\* one when the current date advances by a day, and they are 0 exactly when
\* the date is the current local calendar date.
C9_CountsDownToZeroOnTheDay ==
    expiryArg.at # NoTime =>
        /\ DaysAt(expiryArg.expiryDate, expiryArg.at + HoursPerDay, tz)
            = expiryStatus.days - 1
        /\ expiryStatus.days = 0
            <=> expiryArg.expiryDate = LocalDay(expiryArg.at, tz)

IsDisplayedStep ==
    LoadItemsOk \/ RealtimeInsert \/ RealtimeUpdate \/ RealtimeDelete

\* C10: after the initial load and after every feed event the displayed
\* counts are those of the item list: all is its length, expiringSoon the
\* number of its items with 0 <= days <= 7, expired the number with days < 0,
\* the two together at most all; an INSERT of an item that expired
\* yesterday into the empty list displays all 1, expiringSoon 0, expired 1.
C10_CountsOfList ==
    [][IsDisplayedStep =>
        /\ counts'.allCount = Len(items')
        /\ counts'.soonCount = Cardinality({i \in DOMAIN items' :
                /\ DaysAt(items'[i].expiry_date, now', tz') >= 0
                /\ DaysAt(items'[i].expiry_date, now', tz') <= 7})
        /\ counts'.expiredCount = Cardinality({i \in DOMAIN items' :
                DaysAt(items'[i].expiry_date, now', tz') < 0})
        /\ counts'.soonCount + counts'.expiredCount <= counts'.allCount
        /\ (/\ items = <<>>
            /\ RealtimeInsert
            /\ items'[1].expiry_date = LocalDay(now, tz) - 1)
            => counts' = [allCount |-> 1, soonCount |-> 0, expiredCount |-> 1]]_vars

\* The feed has delivered events, and the list holds an item that expires
\* today and an expired one, displayed as all 2, expiringSoon 1, expired 1.
C10_Witness ==
    /\ realtimeChannel = "subscribed"
    /\ \E i, j \in DOMAIN items :
        /\ DaysAt(items[i].expiry_date, now, tz) = 0
        /\ DaysAt(items[j].expiry_date, now, tz) < 0
    /\ counts = [allCount |-> 2, soonCount |-> 1, expiredCount |-> 1]

\* C14: the protected content of the dashboard or profile page is never shown
\* to a user whose email is not confirmed, whatever sign-in attempts and page
\* loads came before.
C14_UnconfirmedNeverReachesDashboard ==
    displayed => emailConfirmed

\* C15: once a protected page has redirected to login.html for want of a
\* session, it has done nothing but the auth check: its content is hidden, no
\* profile or item fetch was made, no channel is subscribed, notifications are
\* not initialised, and init() has returned.
C15_RedirectAndNothingElse ==
    location = "login.html" =>
        /\ pc \in {"login", "loginForm"}
        /\ displayed = FALSE
        /\ initCalls \subseteq {"requireAuth"}
        /\ currentUser = Null
        /\ items = <<>>
        /\ realtimeChannel = Null
        /\ notificationPermission = "default"
        /\ intervalTimers = <<>>
        /\ dailyTimeout = NoTime
        /\ lastScan = NoScan

\* The dashboard found no session and redirected.
C15_Witness ==
    /\ location = "login.html"
    /\ initCalls = {"requireAuth"}
    /\ session = Null

\* The quantity the claim gives an imported element: its own, 1 without one.
ImportedQuantity(element) ==
    IF element.quantity = NoQuantity THEN 1 ELSE element.quantity

C12_ExportImportRoundTrip ==
    [][(/\ download.format # "none"
        /\ HandleImport(download, "ok"))
       => /\ JSONparses(download)
          /\ download.isArray
          /\ Len(lastRun'.sent) = Len(items)
          /\ \A i \in DOMAIN items :
                /\ lastRun'.sent[i].name = items[i].name
                /\ lastRun'.sent[i].category = items[i].category
                /\ lastRun'.sent[i].quantity = items[i].quantity
                /\ lastRun'.sent[i].expiry_date = items[i].expiry_date
                /\ lastRun'.sent[i].notes = items[i].notes]_vars

\* C13: every item of the list belongs to the current user.
C13_OnlyOwnItems ==
    \A i \in DOMAIN items : items[i].user_id = currentUser

\* C16: a DELETE event leaves the list without the event's id and with
\* exactly the other items, in the order they had; a DELETE of an id that is
\* not in the list leaves the list as it is.
C16_DeleteRemovesOnlyThatId ==
    [][\A payload \in Payloads(DashDates) :
        (payload.eventType = "DELETE" /\ RealtimeChange(payload))
        => LET id == payload.old.id
               kept == {i \in DOMAIN items : items[i].id # id}
           IN  /\ id \notin IdsOf(items')
               /\ Len(items') = Cardinality(kept)
               /\ \A i \in kept :
                    items'[Cardinality({j \in kept : j <= i})] = items[i]
               /\ id \notin IdsOf(items) => items' = items]_vars

\* A DELETE event has removed one of the two loaded items: the list holds the
\* other one.
C16_Witness ==
    /\ toast = showToast("Item deleted", "info")
    /\ Len(items) = 1
    /\ Cardinality(db) = 2

\* C17: after initNotifications() without permission the scans are scheduled
\* all the same (the immediate scan has run, the six-hour timer and the 09:00
\* trigger are armed), and no alert is shown while permission is not granted.
C17_ScansRunWithoutPermission ==
    /\ (pc = "running" /\ notificationPermission # "granted") =>
            /\ lastScan.at # NoTime
            /\ intervalTimers # <<>>
            /\ (dailyTimeout # NoTime \/ Len(intervalTimers) > 1)
    /\ notificationPermission # "granted" => \A a \in Alerts : shown[a] = 0

LocalHour(t, z) == (t + z) % HoursPerDay

\* C18: initNotifications() sets the fixed-time trigger to the next 09:00
\* local, today when it is not yet after 09:00 and tomorrow otherwise, 0 to 24
\* hours ahead; the trigger fires at that instant and then every 24 hours;
\* the coarse timer fires 6 hours after the start and every 6 hours from
\* then; every firing of either timer runs one scan at that instant.
C18_TimerSchedule ==
    [][/\ InitNotificationsGranted =>
            /\ dailyTimeout' - now >= 0
            /\ dailyTimeout' - now <= 24
            /\ LocalHour(dailyTimeout', tz) = 9
            /\ LocalDay(dailyTimeout', tz) =
                IF LocalHour(now, tz) <= 9 THEN LocalDay(now, tz) ELSE LocalDay(now, tz) + 1
            /\ Len(intervalTimers') = 1
            /\ intervalTimers'[1].due = now + 6
            /\ lastScan'.at = now
       /\ DailyTimeoutFires =>
            /\ now = dailyTimeout
            /\ LocalHour(now, tz) = 9
            /\ lastScan'.at = now
            /\ intervalTimers'[Len(intervalTimers')].due = now + 24
       /\ IntervalFires =>
            /\ lastScan'.at = now
            /\ \E i \in DOMAIN intervalTimers :
                /\ now = intervalTimers[i].due
                /\ intervalTimers'[i].due = now + intervalTimers[i].period
                /\ intervalTimers[i].period = (IF i = 1 THEN 6 ELSE 24)
                /\ i > 1 => LocalHour(now, tz) = 9
                /\ \A j \in DOMAIN intervalTimers :
                    j # i => intervalTimers'[j] = intervalTimers[j]]_vars

\* The 09:00 trigger has fired and, 24 hours later, its daily timer: the scan
\* of that firing ran at 09:00 local.
C18_Witness ==
    /\ Len(intervalTimers) = 2
    /\ intervalTimers[2].due = now + 24
    /\ lastScan.at = now
    /\ dailyTimeout = NoTime
    /\ LocalHour(now, tz) = 9
    /\ LocalDay(now, tz) > StartDay

\* The steps in which a remote call fails: the initial select, the form's
\* upload, insert or update, the delete, the import's insert (lastRun' names
\* the handler of the step).
RemoteCallFails ==
    \/ LoadItemsError
    \/ lastRun'.handler = "saveItem" /\ SaveItemFails
    \/ lastRun'.handler = "deleteItem" /\ DeleteItemFails
    \/ /\ lastRun'.handler = "handleImport"
       /\ lastRun'.calls # <<>>
       /\ db' = db
       /\ \E file \in JsonFiles : file.isArray /\ HandleImport(file, "error")

\* C19: a handler whose remote call fails shows an error toast and leaves the
\* item list and the counts as they were, the page and the form as they were
\* for a retry.
C19_FailureLeavesListUnchanged ==
    [][RemoteCallFails =>
        /\ items' = items
        /\ counts' = counts
        /\ toast'.type = "error"
        /\ location' = location
        /\ editingItemId' = editingItemId]_vars

\* The insert of a new item failed with items in the list.
C19_Witness ==
    /\ lastRun.handler = "saveItem"
    /\ lastRun.calls = <<"expiry_items.insert">>
    /\ toast = showToast("Failed to save item", "error")
    /\ items # <<>>
    /\ Cardinality(db) = Len(items)

\* C20: a submit of the item form whose name is empty after trimming issues
\* no remote call (no upload, no insert, no update), shows an error at once
\* and changes nothing.
C20_EmptyNameRejected ==
    [][\A form \in Forms, outcome \in SaveOutcomes :
        (trim(form.name) = <<>> /\ SaveItem(form, outcome))
        => /\ lastRun'.calls = <<>>
           /\ toast'.type = "error"
           /\ db' = db
           /\ items' = items
           /\ editingItemId' = editingItemId]_vars

\* An address of the form local@domain.tld: no whitespace, one '@' with
\* something before it, and after it a dot with something on both sides.
WellFormed(email) ==
    \E i \in DOMAIN email :
        LET local == SubSeq(email, 1, i - 1)
            rest == SubSeq(email, i + 1, Len(email))
        IN  /\ email[i] = "@"
            /\ local # <<>>
            /\ \A k \in DOMAIN local : local[k] \notin {" ", "@"}
            /\ \A k \in DOMAIN rest : rest[k] \notin {" ", "@"}
            /\ \E j \in DOMAIN rest : rest[j] = "." /\ 1 < j /\ j < Len(rest)

\* C21: a submit of the signup form issues the sign-up call only when the
\* name is not empty, the email is well-formed, the password has at least 8
\* characters and equals its confirmation, and a submit of the login form
\* issues the sign-in call only when the email is well-formed; when a check
\* fails an error message is shown and no remote call is made.
C21_ValidatedBeforeRemoteCall ==
    [][lastRun'.handler \in {"login", "signup"} =>
        /\ \A form \in SignupForms, outcome \in {"ok", "error"} :
            Signup(form, outcome) =>
                LET valid == /\ trim(form.name) # <<>>
                             /\ WellFormed(trim(form.email))
                             /\ Len(form.password) >= 8
                             /\ form.password = form.confirmPassword
                IN  /\ lastRun'.calls # <<>> => valid
                    /\ ~valid => /\ lastRun'.calls = <<>>
                                 /\ errorMessage' # ""
                                 /\ session' = session
                                 /\ pendingRedirect' = pendingRedirect
        /\ \A email \in Emails, outcome \in {"error", "unconfirmed", "confirmed"} :
            Login(email, outcome) =>
                /\ lastRun'.calls # <<>> => WellFormed(trim(email))
                /\ ~WellFormed(trim(email)) =>
                        /\ lastRun'.calls = <<>>
                        /\ errorMessage' # ""
                        /\ session' = session
                        /\ pendingRedirect' = pendingRedirect]_vars

\* The signup form was submitted with a password that differs from its
\* confirmation: the message is shown and nothing was called.
C21_Witness ==
    /\ lastRun.handler = "signup"
    /\ lastRun.calls = <<>>
    /\ errorMessage = "Passwords do not match"
    /\ location = "signup.html"

\* C22: an import of a file that is not parseable, or whose JSON value is not
\* an array, issues no insert, shows an error notice and leaves the item list,
\* the counts and the remote rows as they were.
C22_NonArrayImportRejected ==
    [][lastRun'.handler = "handleImport" =>
        \A file \in JsonFiles \cup TextFiles \cup {download},
           outcome \in {"ok", "error"} :
            (/\ file.format # "none"
             /\ (file.format # "json" \/ ~file.isArray)
             /\ HandleImport(file, outcome))
            => /\ lastRun'.calls = <<>>
               /\ toast' = showToast("Failed to import data", "error")
               /\ items' = items
               /\ counts' = counts
               /\ db' = db]_vars

\* An import was rejected before its insert, with items in the list.
C22_Witness ==
    /\ lastRun.handler = "handleImport"
    /\ lastRun.calls = <<>>
    /\ toast = showToast("Failed to import data", "error")
    /\ items # <<>>

\* C23: when the upload fails for want of the bucket, the notice names the
\* missing bucket and is not the notice of another upload failure, for the
\* avatar upload as for the item's image upload, and no record is written
\* after the failed upload.
C23_BucketMissingNotice ==
    [][/\ \A removed \in BOOLEAN :
            HandleAvatarUpload("bucketNotFound", removed) =>
                /\ toast'.type = "error"
                /\ toast'.message # avatarError("uploadError")
                /\ toast'.message # avatarError("updateError")
                /\ \A i \in DOMAIN lastRun'.calls : lastRun'.calls[i] # "profiles.update"
                /\ profileAvatar' = profileAvatar
       /\ \A form \in Forms :
            SaveItem(form, "bucketNotFound") =>
                /\ toast'.type = "error"
                /\ toast'.message # saveError("uploadError")
                /\ toast'.message # saveError("writeError")
                /\ lastRun'.calls = <<"storage.upload">>
                /\ db' = db]_vars

\* C30: the blob the profile's avatar_url refers to exists in the bucket.
C30_AvatarBlobExists ==
    profileAvatar # 0 => profileAvatar \in avatars

\* C29: on the profile page, when every feed event is handled and every
\* select of loadStats is answered, the figures shown are those of the rows
\* of the remote store.
C29_StatsOfLatestState ==
    (OnProfile /\ feed = <<>> /\ statsFetches = <<>>) => stats = statsOf(db)

\* C28: on the dashboard, once the channel is subscribed and every event on
\* its way is handled, the ids of the list are the ids of the user's rows.
C28_NoChangeLost ==
    (realtimeChannel = "subscribed" /\ feed = <<>>)
        => IdsOf(items) = {r.id : r \in db}

\* C24: a page holds at most one open subscription, opened by init() after
\* the initial load, and the client holds no other: once a page is unloaded
\* (by a navigation, a redirect or the logout) no subscription is open.
C24_OneChannelReleasedOnTeardown ==
    /\ openChannels = IF realtimeChannel = Null THEN 0 ELSE 1
    /\ realtimeChannel # Null =>
        /\ location \in {"dashboard.html", "profile.html"}
        /\ location = "dashboard.html" =>
                {"loadItems", "setupRealtimeSync"} \subseteq initCalls
        /\ location = "profile.html" =>
                {"loadStats", "setupRealtimeSync"} \subseteq initCalls
    /\ pc \in {"login", "loginForm", "requireAuth"} => openChannels = 0

\* The logout has left the subscribed dashboard for the login page, and no
\* subscription is open.
C24_Witness ==
    /\ location = "login.html"
    /\ toast = showToast("Logged out successfully", "success")
    /\ session = Null
    /\ openChannels = 0

\* C26: the days until expiry of the date that is the current local calendar
\* date are 0 in every zone, and the expiry instant (the date string parsed,
\* then set to local midnight) lies on the local day the string names.
C26_TodayIsZeroInEveryZone ==
    expiryArg.at # NoTime =>
        /\ expiryArg.expiryDate = LocalDay(expiryArg.at, tz) => expiryStatus.days = 0
        /\ LocalDay(SetHours(ParseDate(expiryArg.expiryDate), 0, tz), tz)
            = expiryArg.expiryDate

\* C27: a save submitted from the edit modal of item X writes an update of X,
\* and a save submitted from the add modal writes an insert, whatever was
\* done to the modal while the save's upload was on its way.
C27_SaveWritesWhatWasSubmitted ==
    [][\A outcome \in {"ok", "writeError"} :
        SaveItemUploadAnswered(outcome) =>
            LET submitted == saving[1]
                record == itemData(submitted.form, currentUser)
            IN  /\ submitted.editing # 0 =>
                    /\ lastRun'.calls = <<"storage.upload", "expiry_items.update">>
                    /\ outcome = "ok" => db' = UpdateRow(db, submitted.editing, record)
                /\ submitted.editing = 0 =>
                    /\ lastRun'.calls = <<"storage.upload", "expiry_items.insert">>
                    /\ outcome = "ok" => db' = InsertRows(db, <<record>>)]_vars

\* The steps of the handlers of the view: the item form, delete, import,
\* export, the filter and the modal.
ViewHandlerStep ==
    \/ SetFilter
    \/ OpenAddModal
    \/ EditItem
    \/ CloseModal
    \/ SubmitItemForm
    \/ DeleteItemOk
    \/ DeleteItemCancelled
    \/ DeleteItemFails
    \/ ExportDataOk
    \/ ImportFile

\* C25: a step that changes the item list is the initial load or the handling
\* of a feed event, and never a step of saving, deleting, importing,
\* exporting, switching the filter or opening or closing the modal; what a
\* successful write changed shows in the list only after its feed event.
C25_OnlyLoadAndFeedChangeList ==
    [][items' # items =>
        /\ LoadItemsOk \/ WriteEvent
        /\ ~ViewHandlerStep]_vars

\* A new item was saved and its event is not handled yet: the store has two
\* rows, the list still its one item, and the filter 'expired' shows none.
C25_Witness ==
    /\ lastRun.handler = "saveItem"
    /\ lastRun.calls = <<"storage.upload", "expiry_items.insert">>
    /\ Cardinality(db) = 2
    /\ Len(items) = 1
    /\ currentFilter = "expired"
    /\ filteredItems(items, currentFilter) = <<>>

====
